---- MODULE Spec2Model ----
(***************************************************************************)
(* A model of two parts of the beacon node:                                *)
(*                                                                         *)
(*  - beacon-chain/state/stategen/getter.go: StateByRoot, StateBySlot,     *)
(*    StateSummaryExists, stateSummary and recoverStateSummary, run by     *)
(*    concurrent callers against the summary cache, the beacon DB and the  *)
(*    split point.  Every access to a shared structure is one step, so     *)
(*    that other callers, cache evictions and split advances interleave    *)
(*    between the steps of a call (specification Spec).                    *)
(*                                                                         *)
(*  - beacon-chain/p2p/encoder/ssz.go: the length-prefixed encode and      *)
(*    decode functions of SszNetworkEncoder (specification SpecEnc).       *)
(***************************************************************************)
EXTENDS Integers, Sequences, FiniteSets, TLC

\* ------------------------------------------------------------------ bounds

\* Block roots are 1..NumRoots; root 0 is the zero hash.
NumRoots == 1
\* Slots are 0..MaxSlot.
MaxSlot == 2
\* The concurrent callers of the stategen service.
Callers == {"c1", "c2"}

\* ------------------------------------------------------------ stategen data

\* params.BeaconConfig().ZeroHash
ZeroHash == 0

Roots == 0..NumRoots
BlockRoots == 1..NumRoots
Slots == 0..MaxSlot

\* The slot of the block whose hash tree root is r: a root determines its
\* block, hence its slot.
SlotOf(r) == IF r <= MaxSlot THEN r ELSE MaxSlot

\* A nil *pb.StateSummary.
NilSummary == [slot |-> 0 - 1, root |-> 0 - 1]

\* &pb.StateSummary{Slot: slot, Root: root[:]}
StateSummary(slot, root) == [slot |-> slot, root |-> root]

\* No block stored under a root.
NilBlock == [slot |-> 0 - 1]

\* A nil *state.BeaconState.
NilState == [tier |-> "nil", root |-> 0 - 1, slot |-> 0 - 1]

\* What beaconDB.State(ctx, root) returns: the state persisted under root.
\* Under the zero hash that is the genesis state.
DBState(root) == [tier |-> "db", root |-> root, slot |-> 0 - 1]

\* What the four loaders return; the tier field records which loader ran.
ColdStateByRoot(root) == [tier |-> "cold", root |-> root, slot |-> 0 - 1]
HotStateByRoot(root) == [tier |-> "hot", root |-> root, slot |-> 0 - 1]
ColdStateBySlot(slot) == [tier |-> "cold", root |-> 0 - 1, slot |-> slot]
HotStateBySlot(slot) == [tier |-> "hot", root |-> 0 - 1, slot |-> slot]

VARIABLES
    summaryCache,   \* s.stateSummaryCache: root -> summary, NilSummary if absent
    dbSummaries,    \* beaconDB's state summaries: root -> summary or NilSummary
    dbBlocks,       \* beaconDB's blocks: root -> block or NilBlock
    splitSlot,      \* s.splitInfo.slot
    calls,          \* per caller: the running call, its locals and position
    seen            \* per caller: the values s.splitInfo.slot has had since
                    \* the caller's call began (kept under SpecSplit only)

stategenVars == <<summaryCache, dbSummaries, dbBlocks, splitSlot, calls, seen>>

\* A caller that is running nothing.
Idle ==
    [op |-> "none", root |-> 0 - 1, slot |-> 0 - 1, pc |-> "idle",
     summary |-> NilSummary, split |-> 0 - 1, preStore |-> FALSE,
     log |-> {}, state |-> NilState, ok |-> FALSE, err |-> ""]

\* The start of a call of op on root (or slot).  preStore notes whether a
\* summary for root was persisted when the call began.
Begin(op, root, slot) ==
    [Idle EXCEPT !.op = op, !.root = root, !.slot = slot,
                 !.preStore = (root \in Roots /\ dbSummaries[root] # NilSummary)]

\* ------------------------------------------------- cache and DB operations

\* stateSummaryCache.Has
CacheHas(root) == summaryCache[root] # NilSummary

\* stateSummaryCache.Get: the cached summary, nil if there is none.
CacheGet(root) == summaryCache[root]

\* beaconDB.HasStateSummary
HasStateSummary(root) == dbSummaries[root] # NilSummary

\* beaconDB.HasBlock
HasBlock(root) == dbBlocks[root] # NilBlock

\* ------------------------------------------------------------ stateSummary

\* ReturnSummary gone wrong: StateByRoot drops the error and goes on.
ReturnSummaryMutSwallow(call, summary, err) ==
    IF call.op = "StateByRoot"
    THEN [call EXCEPT !.pc = "sbr_tier", !.summary = summary]
    ELSE [call EXCEPT !.pc = "done", !.summary = summary, !.err = err]

\* The return of stateSummary (getter.go:75, :89, :91) into its caller:
\* StateByRoot wraps an error and returns (getter.go:26-28), else goes on
\* to the tier decision.
ReturnSummary(call, summary, err) ==
    IF call.op = "StateByRoot"
    THEN IF err # ""
         THEN [call EXCEPT !.pc = "done", !.summary = summary,
                           !.err = "could not get state summary: " \o err]
         ELSE [call EXCEPT !.pc = "sbr_tier", !.summary = summary]
    ELSE [call EXCEPT !.pc = "done", !.summary = summary, !.err = err]

\* AfterLookup gone wrong: recovers whether or not a summary was found.
AfterLookupMutAlways(call, summary) ==
    [call EXCEPT !.pc = "rc_hasblock", !.summary = summary]

\* getter.go:72-75: recover when the summary is nil, else return it.
AfterLookup(call, summary) ==
    IF summary = NilSummary
    THEN [call EXCEPT !.pc = "rc_hasblock", !.summary = summary]
    ELSE ReturnSummary(call, summary, "")

\* getter.go:64: s.stateSummaryCache.Has(blockRoot) picks the branch.
CacheLookup(call) ==
    [call EXCEPT !.log = @ \cup {"cache.Has"},
                 !.pc = IF CacheHas(call.root) THEN "ss_get" ELSE "ss_db"]

\* getter.go:61-64: a direct call of stateSummary, up to the cache's Has.
stateSummary(c, root) ==
    /\ calls[c].pc = "idle"
    /\ calls' = [calls EXCEPT ![c] = CacheLookup(Begin("stateSummary", root, 0 - 1))]
    /\ UNCHANGED <<summaryCache, dbSummaries, dbBlocks, splitSlot>>

\* getter.go:65: summary = s.stateSummaryCache.Get(blockRoot)
stateSummary_Get(c) ==
    /\ calls[c].pc = "ss_get"
    /\ calls' = [calls EXCEPT ![c] =
          AfterLookup([calls[c] EXCEPT !.log = @ \cup {"cache.Get"}],
                      CacheGet(calls[c].root))]
    /\ UNCHANGED <<summaryCache, dbSummaries, dbBlocks, splitSlot>>

\* getter.go:67: summary, err = s.beaconDB.StateSummary(ctx, blockRoot)
stateSummary_DB(c) ==
    /\ calls[c].pc = "ss_db"
    /\ calls' = [calls EXCEPT ![c] =
          AfterLookup([calls[c] EXCEPT !.log = @ \cup {"db.StateSummary"}],
                      dbSummaries[calls[c].root])]
    /\ UNCHANGED <<summaryCache, dbSummaries, dbBlocks, splitSlot>>

\* ----------------------------------------------------- recoverStateSummary

\* DerivedSummary gone wrong: the slot is off by one.
DerivedSummaryMutSlot(b, root) == StateSummary(b.slot + 1, root)

\* getter.go:85: the summary derived from a stored block.
DerivedSummary(b, root) == StateSummary(b.slot, root)

\* getter.go:80, :91: s.beaconDB.HasBlock(ctx, blockRoot)
recoverStateSummary_HasBlock(c) ==
    /\ calls[c].pc = "rc_hasblock"
    /\ LET call == [calls[c] EXCEPT !.log = @ \cup {"db.HasBlock"}] IN
       calls' = [calls EXCEPT ![c] =
          IF HasBlock(call.root)
          THEN [call EXCEPT !.pc = "rc_block"]
          ELSE ReturnSummary(call, NilSummary, "errUnknownStateSummary")]
    /\ UNCHANGED <<summaryCache, dbSummaries, dbBlocks, splitSlot>>

\* getter.go:81-85: b, err := s.beaconDB.Block(ctx, blockRoot), then the
\* summary built from it.
recoverStateSummary_Block(c) ==
    /\ calls[c].pc = "rc_block"
    /\ calls' = [calls EXCEPT
          ![c].pc = "rc_save",
          ![c].log = @ \cup {"db.Block"},
          ![c].summary = DerivedSummary(dbBlocks[calls[c].root], calls[c].root)]
    /\ UNCHANGED <<summaryCache, dbSummaries, dbBlocks, splitSlot>>

\* recoverStateSummary_Save gone wrong: the save refuses to write over a
\* summary the store already holds, and the call fails.
recoverStateSummary_SaveMutExclusive(c) ==
    /\ calls[c].pc = "rc_save"
    /\ IF dbSummaries[calls[c].root] = NilSummary
       THEN /\ dbSummaries' = [dbSummaries EXCEPT ![calls[c].root] = calls[c].summary]
            /\ calls' = [calls EXCEPT ![c] =
                  ReturnSummary([calls[c] EXCEPT !.log = @ \cup {"db.SaveStateSummary"}],
                                calls[c].summary, "")]
       ELSE /\ dbSummaries' = dbSummaries
            /\ calls' = [calls EXCEPT ![c] =
                  ReturnSummary([calls[c] EXCEPT !.log = @ \cup {"db.SaveStateSummary"}],
                                NilSummary, "summary exists")]
    /\ UNCHANGED <<summaryCache, dbBlocks, splitSlot>>

\* getter.go:86-89: s.beaconDB.SaveStateSummary(ctx, summary), then return.
recoverStateSummary_Save(c) ==
    /\ calls[c].pc = "rc_save"
    /\ dbSummaries' = [dbSummaries EXCEPT ![calls[c].root] = calls[c].summary]
    /\ calls' = [calls EXCEPT ![c] =
          ReturnSummary([calls[c] EXCEPT !.log = @ \cup {"db.SaveStateSummary"}],
                        calls[c].summary, "")]
    /\ UNCHANGED <<summaryCache, dbBlocks, splitSlot>>

\* ----------------------------------------------------------- store failures

\* The error of a failing store operation.
errStore == "store failure"

\* AfterStoreError gone wrong: the error is dropped and the block-based
\* recovery is tried.
AfterStoreErrorMutRecover(call, err) ==
    [call EXCEPT !.pc = "rc_hasblock", !.summary = NilSummary]

\* getter.go:68-70, :82-84, :86-88: "if err != nil { return nil, err }".
AfterStoreError(call, err) == ReturnSummary(call, NilSummary, err)

\* getter.go:67-70: s.beaconDB.StateSummary(ctx, blockRoot) fails.
stateSummary_DBFails(c) ==
    /\ calls[c].pc = "ss_db"
    /\ calls' = [calls EXCEPT ![c] =
          AfterStoreError([calls[c] EXCEPT !.log = @ \cup
                              {"db.StateSummary", "db.StateSummary fails"}],
                          errStore)]
    /\ UNCHANGED <<summaryCache, dbSummaries, dbBlocks, splitSlot>>

\* getter.go:81-84: s.beaconDB.Block(ctx, blockRoot) fails.
recoverStateSummary_BlockFails(c) ==
    /\ calls[c].pc = "rc_block"
    /\ calls' = [calls EXCEPT ![c] =
          AfterStoreError([calls[c] EXCEPT !.log = @ \cup
                              {"db.Block", "db.Block fails"}],
                          errStore)]
    /\ UNCHANGED <<summaryCache, dbSummaries, dbBlocks, splitSlot>>

\* getter.go:86-88: s.beaconDB.SaveStateSummary(ctx, summary) fails; a
\* failed save leaves the store as it was.
recoverStateSummary_SaveFails(c) ==
    /\ calls[c].pc = "rc_save"
    /\ calls' = [calls EXCEPT ![c] =
          AfterStoreError([calls[c] EXCEPT !.log = @ \cup
                              {"db.SaveStateSummary", "db.SaveStateSummary fails"}],
                          errStore)]
    /\ UNCHANGED <<summaryCache, dbSummaries, dbBlocks, splitSlot>>

\* ------------------------------------------------------------- StateByRoot

\* SummaryIsCold gone wrong: the boundary slot counts as cold.
SummaryIsColdMutLeq(summary, split) == summary.slot <= split

\* getter.go:30: summary.Slot < s.splitInfo.slot
SummaryIsCold(summary, split) == summary.slot < split

\* IsGenesisRoot gone wrong: the zero hash is not recognised.
IsGenesisRootMutNever(root) == FALSE

\* getter.go:21: blockRoot == params.BeaconConfig().ZeroHash
IsGenesisRoot(root) == root = ZeroHash

\* getter.go:16-25: StateByRoot up to its first access to shared data: the
\* genesis state from the DB for the zero hash (getter.go:22), else the
\* cache's Has of stateSummary.
StateByRoot(c, root) ==
    /\ calls[c].pc = "idle"
    /\ LET call == Begin("StateByRoot", root, 0 - 1) IN
       calls' = [calls EXCEPT ![c] =
          IF IsGenesisRoot(root)
          THEN [call EXCEPT !.pc = "done", !.log = {"db.State"},
                            !.state = DBState(root)]
          ELSE CacheLookup(call)]
    /\ UNCHANGED <<summaryCache, dbSummaries, dbBlocks, splitSlot>>

\* StateByRoot_Tier gone wrong: the decision is made against the split
\* slot the service started with, not the one it has now.
StateByRoot_TierMutStale(c) ==
    /\ calls[c].pc = "sbr_tier"
    /\ LET cold == SummaryIsCold(calls[c].summary, 0) IN
       calls' = [calls EXCEPT
          ![c].pc = "done",
          ![c].split = 0,
          ![c].log = @ \cup {"splitInfo.slot",
                IF cold THEN "loadColdStateByRoot" ELSE "loadHotStateByRoot"},
          ![c].state = IF cold THEN ColdStateByRoot(calls[c].root)
                               ELSE HotStateByRoot(calls[c].root)]
    /\ UNCHANGED <<summaryCache, dbSummaries, dbBlocks, splitSlot>>

\* getter.go:30-34: read the split slot, pick the loader and run it.
StateByRoot_Tier(c) ==
    /\ calls[c].pc = "sbr_tier"
    /\ LET cold == SummaryIsCold(calls[c].summary, splitSlot) IN
       calls' = [calls EXCEPT
          ![c].pc = "done",
          ![c].split = splitSlot,
          ![c].log = @ \cup {"splitInfo.slot",
                IF cold THEN "loadColdStateByRoot" ELSE "loadHotStateByRoot"},
          ![c].state = IF cold THEN ColdStateByRoot(calls[c].root)
                               ELSE HotStateByRoot(calls[c].root)]
    /\ UNCHANGED <<summaryCache, dbSummaries, dbBlocks, splitSlot>>

\* ------------------------------------------------------------- StateBySlot

\* SlotIsCold gone wrong: the boundary slot counts as cold.
SlotIsColdMutLeq(slot, split) == slot <= split

\* getter.go:46: slot < s.splitInfo.slot
SlotIsCold(slot, split) == slot < split

\* getter.go:42-51: read the split slot, pick the loader and run it.
StateBySlot(c, slot) ==
    /\ calls[c].pc = "idle"
    /\ LET cold == SlotIsCold(slot, splitSlot) IN
       calls' = [calls EXCEPT ![c] =
          [Begin("StateBySlot", 0 - 1, slot) EXCEPT
             !.pc = "done",
             !.split = splitSlot,
             !.log = {"splitInfo.slot",
                IF cold THEN "loadColdStateBySlot" ELSE "loadHotStateBySlot"},
             !.state = IF cold THEN ColdStateBySlot(slot) ELSE HotStateBySlot(slot)]]
    /\ UNCHANGED <<summaryCache, dbSummaries, dbBlocks, splitSlot>>

\* ------------------------------------------------------ StateSummaryExists

\* getter.go:55-56, left operand: s.beaconDB.HasStateSummary(ctx, blockRoot);
\* || returns true without evaluating its right operand.
StateSummaryExists(c, root) ==
    /\ calls[c].pc = "idle"
    /\ calls' = [calls EXCEPT ![c] =
          [Begin("StateSummaryExists", root, 0 - 1) EXCEPT
             !.log = {"db.HasStateSummary"},
             !.ok = HasStateSummary(root),
             !.pc = IF HasStateSummary(root) THEN "done" ELSE "sse_cache"]]
    /\ UNCHANGED <<summaryCache, dbSummaries, dbBlocks, splitSlot>>

\* StateSummaryExists_Cache gone wrong: the probe recovers a missing summary
\* from the stored block, as stateSummary does.
StateSummaryExists_CacheMutRecover(c) ==
    /\ calls[c].pc = "sse_cache"
    /\ calls' = [calls EXCEPT
          ![c].log = @ \cup {"cache.Has"},
          ![c].ok = CacheHas(calls[c].root) \/ HasBlock(calls[c].root),
          ![c].pc = "done"]
    /\ dbSummaries' =
          IF ~CacheHas(calls[c].root) /\ HasBlock(calls[c].root)
          THEN [dbSummaries EXCEPT ![calls[c].root] =
                   StateSummary(dbBlocks[calls[c].root].slot, calls[c].root)]
          ELSE dbSummaries
    /\ UNCHANGED <<summaryCache, dbBlocks, splitSlot>>

\* getter.go:56, right operand: s.stateSummaryCache.Has(blockRoot)
StateSummaryExists_Cache(c) ==
    /\ calls[c].pc = "sse_cache"
    /\ calls' = [calls EXCEPT
          ![c].log = @ \cup {"cache.Has"},
          ![c].ok = CacheHas(calls[c].root),
          ![c].pc = "done"]
    /\ UNCHANGED <<summaryCache, dbSummaries, dbBlocks, splitSlot>>

\* ---------------------------------------------------------- the environment

\* The caller takes the result; it may call again.
Return(c) ==
    /\ calls[c].pc = "done"
    /\ calls' = [calls EXCEPT ![c] = Idle]
    /\ UNCHANGED <<summaryCache, dbSummaries, dbBlocks, splitSlot>>

\* stateSummaryCache.Put, as the rest of the service calls it when it saves
\* a hot state: the summary of the block with that root.
CachePut(root) ==
    /\ summaryCache[root] = NilSummary
    /\ summaryCache' = [summaryCache EXCEPT ![root] = StateSummary(SlotOf(root), root)]
    /\ UNCHANGED <<dbSummaries, dbBlocks, splitSlot, calls>>

\* stateSummaryCache.Clear: every cached summary is dropped.
CacheClear ==
    /\ \E r \in Roots : summaryCache[r] # NilSummary
    /\ summaryCache' = [r \in Roots |-> NilSummary]
    /\ UNCHANGED <<dbSummaries, dbBlocks, splitSlot, calls>>

\* The finalization logic moves the split point; it never moves back.
AdvanceSplit(newSlot) ==
    /\ newSlot > splitSlot
    /\ splitSlot' = newSlot
    /\ UNCHANGED <<summaryCache, dbSummaries, dbBlocks, calls>>

\* ----------------------------------------------------------- specification

\* After construction the summary cache is empty and the split slot is 0;
\* the DB holds any blocks and any summaries, each summary with the slot of
\* its root's block.
StategenInit ==
    /\ summaryCache = [r \in Roots |-> NilSummary]
    /\ \E S \in SUBSET BlockRoots :
          dbSummaries = [r \in Roots |->
                IF r \in S THEN StateSummary(SlotOf(r), r) ELSE NilSummary]
    /\ \E B \in SUBSET BlockRoots :
          dbBlocks = [r \in Roots |->
                IF r \in B THEN [slot |-> SlotOf(r)] ELSE NilBlock]
    /\ splitSlot = 0
    /\ calls = [c \in Callers |-> Idle]
    /\ seen = [c \in Callers |-> {}]

\* ------------------------------------------------------------ encoder data

\* The longest serialized message of the model, in bytes.  The snappy
\* frame below is exact up to 16 bytes, where the block is one literal.
MaxMsgLen == 2

\* ssz.go:17
MaxChunkSize == 1048576

\* varint.go: the longest varint readVarint accepts, in bytes.
maxVarintLength == 10

\* The byte values the model's messages are made of.
MsgBytes == {0, 255}

Min(a, b) == IF a < b THEN a ELSE b

RECURSIVE SeqsUpTo(_, _)
\* The sequences over S of length at most n.
SeqsUpTo(S, n) ==
    IF n = 0 THEN {<<>>}
    ELSE LET shorter == SeqsUpTo(S, n - 1) IN
         shorter \cup {Append(q, x) : q \in shorter, x \in S}

\* The messages handed to the encoder: nil, byte lists, uint16 values and a
\* value of a type ssz cannot marshal.
NilMsg == [kind |-> "nil", data |-> <<>>, val |-> 0]

Msgs ==
    {NilMsg, [kind |-> "unsupported", data |-> <<>>, val |-> 0]}
    \cup {[kind |-> "bytes", data |-> d, val |-> 0] : d \in SeqsUpTo(MsgBytes, MaxMsgLen)}
    \cup {[kind |-> "uint16", data |-> <<>>, val |-> v] : v \in {0, 258, 65535}}

\* ssz.go:25-27: doEncode, ssz.Marshal: a byte list is its bytes, a uint16
\* its two bytes, low byte first; other types are an error.
doEncode(msg) ==
    CASE msg.kind = "bytes" -> [b |-> msg.data, err |-> ""]
      [] msg.kind = "uint16" ->
            [b |-> <<msg.val % 256, msg.val \div 256>>, err |-> ""]
      [] OTHER -> [b |-> <<>>, err |-> "ssz: unsupported type"]

RECURSIVE EncodeVarint(_)
\* ssz.go:70, :94: proto.EncodeVarint: seven bits a byte, low group first,
\* the high bit set on every byte but the last.
EncodeVarint(x) ==
    IF x < 128 THEN <<x>> ELSE <<(x % 128) + 128>> \o EncodeVarint(x \div 128)

RECURSIVE DecodeVarint(_)
\* proto.DecodeVarint of a complete varint.
DecodeVarint(b) ==
    IF b = <<>> THEN 0 ELSE (Head(b) % 128) + 128 * DecodeVarint(Tail(b))

\* varint.go: readVarint takes bytes from the reader one at a time up to
\* the first byte without the high bit; it fails at the end of the reader
\* and when maxVarintLength bytes all have the high bit.  n is the number
\* of bytes it took.
readVarint(r) ==
    LET ends == {i \in 1..Min(Len(r), maxVarintLength) : r[i] < 128} IN
    IF ends # {}
    THEN LET k == CHOOSE i \in ends : \A j \in ends : i <= j IN
         [val |-> DecodeVarint(SubSeq(r, 1, k)), n |-> k, err |-> ""]
    ELSE IF Len(r) >= maxVarintLength
         THEN [val |-> 0, n |-> maxVarintLength,
               err |-> "provided header exceeds the max varint length"]
         ELSE [val |-> 0, n |-> Len(r), err |-> "EOF"]

\* The stream identifier chunk of snappy's framing format.
SnappyMagic == <<255, 6, 0, 0, 115, 78, 97, 80, 112, 89>>

\* The four checksum bytes of a chunk: a value the data determines (the
\* model does not compute the CRC-32C).
SnappyCrc(b) == [i \in 1..4 |-> (Len(b) + i + (IF b = <<>> THEN 0 ELSE Head(b))) % 256]

\* ssz.go:182-190: what writeSnappyBuffer puts on the writer for b: nothing
\* for no bytes (the buffered writer has nothing to flush), else the stream
\* identifier and one chunk: type, three length bytes, checksum, data.  Up
\* to 16 bytes snappy's block is a single literal, longer than the data,
\* so the chunk is of the uncompressed type (1).
SnappyFrame(b) ==
    IF b = <<>> THEN <<>>
    ELSE SnappyMagic
         \o <<1, (4 + Len(b)) % 256, ((4 + Len(b)) \div 256) % 256,
              (4 + Len(b)) \div 65536>>
         \o SnappyCrc(b) \o b

\* ssz.go:151, :157: one Read of a snappy.Reader on stream into a buffer of
\* bufLen bytes: the bytes of the first data chunk that fit.
SnappyRead(stream, bufLen) ==
    IF stream = <<>> THEN [data |-> <<>>, err |-> "EOF"]
    ELSE IF Len(stream) < 10 \/ SubSeq(stream, 1, 10) # SnappyMagic
    THEN [data |-> <<>>, err |-> "snappy: corrupt input"]
    ELSE IF Len(stream) = 10 THEN [data |-> <<>>, err |-> "EOF"]
    ELSE IF Len(stream) < 18 THEN [data |-> <<>>, err |-> "unexpected EOF"]
    ELSE LET chunkLen == stream[12] + 256 * stream[13] + 65536 * stream[14]
             n == chunkLen - 4
         IN  IF stream[11] # 1 \/ n < 0
             THEN [data |-> <<>>, err |-> "snappy: corrupt input"]
             ELSE IF Len(stream) < 18 + n
             THEN [data |-> <<>>, err |-> "unexpected EOF"]
             ELSE LET data == SubSeq(stream, 19, 18 + n) IN
                  IF SubSeq(stream, 15, 18) # SnappyCrc(data)
                  THEN [data |-> <<>>, err |-> "snappy: corrupt input"]
                  ELSE [data |-> SubSeq(data, 1, Min(bufLen, n)), err |-> ""]

\* MaxLength gone wrong: the compressed bound is taken for the plain one.
MaxLengthMutPlain(snappy, length) == length

\* ssz.go:174-179: MaxLength; snappy.MaxEncodedLen(n) is 32 + n + n/6.
MaxLength(snappy, length) ==
    IF snappy THEN 32 + length + length \div 6 ELSE length

VARIABLES
    useSnappy,   \* e.UseSnappyCompression
    encoded,     \* the last Encode... call: its arguments, what it wrote
                 \* to the io.Writer (w) and what it returned (n, err)
    decoded      \* the last Decode... call: its arguments, what it took
                 \* from the io.Reader, what it allocated and returned

encVars == <<useSnappy, encoded, decoded>>

\* No call yet.
NoEncode ==
    [op |-> "none", msg |-> NilMsg, maxSize |-> 0, w |-> <<>>, n |-> 0, err |-> ""]

NoDecode ==
    [op |-> "none", r |-> <<>>, maxSize |-> 0, err |-> "", msgLen |-> 0 - 1,
     taken |-> 0, alloc |-> 0 - 1, out |-> <<>>]

\* ssz.go:74-77, :98-101: the payload written after the varint, and the
\* count returned: bufWriter.Write and w.Write both return len(b).
Payload(snappy, b) == IF snappy THEN SnappyFrame(b) ELSE b

\* SizeAllowed gone wrong: a message of exactly maxSize bytes is refused.
EncodeSizeAllowedMutLt(length, maxSize) == length < maxSize

\* SizeAllowed gone wrong: a message of maxSize + 1 bytes is taken.
EncodeSizeAllowedMutOffByOne(length, maxSize) == ~(length > maxSize + 1)

\* ssz.go:90: the message is refused when uint64(len(b)) > maxSize.
EncodeSizeAllowed(length, maxSize) == ~(length > maxSize)

\* LengthPrefix gone wrong: the prefix is the length of what follows on the
\* wire.
LengthPrefixMutWire(snappy, b) == EncodeVarint(Len(Payload(snappy, b)))

\* ssz.go:70, :94: proto.EncodeVarint(uint64(len(b))), b the serialized
\* message.
LengthPrefix(snappy, b) == EncodeVarint(Len(b))

\* ssz.go:61-78 (limited = FALSE) and ssz.go:82-102 (limited = TRUE): the
\* result of EncodeWithLength and of EncodeWithMaxLength on a fresh writer.
EncodeFramed(op, limited, msg, maxSize) ==
    LET call == [NoEncode EXCEPT !.op = op, !.msg = msg, !.maxSize = maxSize]
        m == doEncode(msg)
    IN  IF msg = NilMsg THEN call
        ELSE IF m.err # "" THEN [call EXCEPT !.err = m.err]
        ELSE IF limited /\ ~EncodeSizeAllowed(Len(m.b), maxSize)
        THEN [call EXCEPT !.err = "size of encoded message is larger than the provided max limit"]
        ELSE [call EXCEPT !.w = LengthPrefix(useSnappy, m.b) \o Payload(useSnappy, m.b),
                          !.n = Len(m.b)]

\* The model keeps the last Encode... call and the last Decode... call, the
\* first only while the second reads what it wrote.
WriterRead(r) ==
    IF encoded.op # "none" /\ encoded.err = "" /\ r = encoded.w
    THEN encoded ELSE NoEncode

\* ssz.go:54: snappy.Encode(nil, b), the block format: the length of b as
\* a varint, then, up to 16 bytes, b as one literal: the tag byte
\* (len - 1) * 4 and the bytes; nothing but the length for no bytes.
SnappyBlock(b) ==
    EncodeVarint(Len(b))
    \o (IF b = <<>> THEN <<>> ELSE <<(Len(b) - 1) * 4>> \o b)

\* ssz.go:30-42 (gossip = FALSE) and ssz.go:45-57 (gossip = TRUE): the
\* result of Encode and of EncodeGossip on a fresh writer.  Encode returns
\* the count of writeSnappyBuffer or w.Write, len(b); EncodeGossip the
\* count of w.Write on the bytes it hands over.
EncodePlain(op, gossip, msg) ==
    LET call == [NoEncode EXCEPT !.op = op, !.msg = msg]
        m == doEncode(msg)
    IN  IF msg = NilMsg THEN call
        ELSE IF m.err # "" THEN [call EXCEPT !.err = m.err]
        ELSE IF gossip
        THEN LET b == IF useSnappy THEN SnappyBlock(m.b) ELSE m.b IN
             [call EXCEPT !.w = b, !.n = Len(b)]
        ELSE [call EXCEPT !.w = Payload(useSnappy, m.b), !.n = Len(m.b)]

\* ssz.go:30-42
Encode(msg) ==
    /\ encoded' = EncodePlain("Encode", FALSE, msg)
    /\ decoded' = NoDecode
    /\ UNCHANGED <<useSnappy, stategenVars>>

\* ssz.go:45-57
EncodeGossip(msg) ==
    /\ encoded' = EncodePlain("EncodeGossip", TRUE, msg)
    /\ decoded' = NoDecode
    /\ UNCHANGED <<useSnappy, stategenVars>>

\* ssz.go:61-78
EncodeWithLength(msg) ==
    /\ encoded' = EncodeFramed("EncodeWithLength", FALSE, msg, 0)
    /\ decoded' = NoDecode
    /\ UNCHANGED <<useSnappy, stategenVars>>

\* ssz.go:82-102
EncodeWithMaxLength(msg, maxSize) ==
    /\ encoded' = EncodeFramed("EncodeWithMaxLength", TRUE, msg, maxSize)
    /\ decoded' = NoDecode
    /\ UNCHANGED <<useSnappy, stategenVars>>

\* DecodeSizeAllowed gone wrong: the declared length is not checked.
DecodeSizeAllowedMutAny(msgLen, maxSize) == TRUE

\* DecodeSizeAllowed gone wrong: a frame that declares exactly maxSize bytes
\* is refused.
DecodeSizeAllowedMutLt(msgLen, maxSize) == msgLen < maxSize

\* ssz.go:153: the frame is refused when msgLen > maxSize.
DecodeSizeAllowed(msgLen, maxSize) == ~(msgLen > maxSize)

\* MaxSizeAllowed gone wrong: any maxSize is taken.
MaxSizeAllowedMutAny(maxSize) == TRUE

\* ssz.go:143: the call is refused when maxSize > MaxChunkSize.
MaxSizeAllowed(maxSize) == ~(maxSize > MaxChunkSize)

\* ssz.go:157: one Read into a buffer of bufLen bytes, from the reader
\* itself or through a snappy.Reader on it: the plain reader gives the
\* bytes that fit, and EOF when asked for bytes it does not have.
ReadPayload(snappy, rest, bufLen) ==
    IF snappy THEN SnappyRead(rest, bufLen)
    ELSE IF rest = <<>> /\ bufLen > 0 THEN [data |-> <<>>, err |-> "EOF"]
    ELSE [data |-> SubSeq(rest, 1, Min(bufLen, Len(rest))), err |-> ""]

\* ssz.go:142-162: the result of DecodeWithMaxLength on reader contents r.
\* taken counts the bytes of r consumed up to the size check, alloc is the
\* length of the buffer made (-1: none), out what doDecode is given.
DecodeFramed(op, r, maxSize) ==
    LET call == [NoDecode EXCEPT !.op = op, !.r = r, !.maxSize = maxSize]
        v == readVarint(r)
    IN  IF ~MaxSizeAllowed(maxSize)
        THEN [call EXCEPT !.err = "maxSize exceeds max chunk size"]
        ELSE IF v.err # ""
        THEN [call EXCEPT !.err = v.err, !.taken = v.n]
        ELSE IF ~DecodeSizeAllowed(v.val, maxSize)
        THEN [call EXCEPT !.msgLen = v.val, !.taken = v.n,
                 !.err = "size of decoded message is larger than the provided max limit"]
        ELSE LET bufLen == MaxLength(useSnappy, v.val)
                 got == ReadPayload(useSnappy, SubSeq(r, v.n + 1, Len(r)), bufLen)
             IN  [call EXCEPT !.msgLen = v.val, !.taken = v.n, !.alloc = bufLen,
                              !.out = got.data, !.err = got.err]

\* ssz.go:142-162
DecodeWithMaxLength(r, maxSize) ==
    /\ decoded' = DecodeFramed("DecodeWithMaxLength", r, maxSize)
    /\ encoded' = WriterRead(r)
    /\ UNCHANGED <<useSnappy, stategenVars>>

\* ssz.go:136-138
DecodeWithLength(r) ==
    /\ decoded' = DecodeFramed("DecodeWithLength", r, MaxChunkSize)
    /\ encoded' = WriterRead(r)
    /\ UNCHANGED <<useSnappy, stategenVars>>

\* The maxSize arguments tried: small ones around the messages' lengths,
\* and the chunk size limit with its neighbours.
MaxSizes == {0, 1, 2, 200, MaxChunkSize - 1, MaxChunkSize, MaxChunkSize + 1}

\* The lengths the frames handed to the decoder declare: one to three
\* varint bytes, around the maxSize arguments.
DeclaredLens == {0, 1, 2, 3, 200, 201, MaxChunkSize, MaxChunkSize + 1}

\* The reader contents tried: a varint and a few payload bytes, a reader
\* that ends before or inside the varint, and a varint that never ends.
Frames ==
    {EncodeVarint(v) \o d : v \in DeclaredLens, d \in {<<>>, <<7>>, <<7, 8, 9>>}}
    \cup {<<>>, <<128>>, [i \in 1..10 |-> 128], [i \in 1..11 |-> 255]}

\* A new encoder with either setting; nothing encoded or decoded yet.
EncInit ==
    /\ useSnappy \in BOOLEAN
    /\ encoded = NoEncode
    /\ decoded = NoDecode

\* ----------------------------------------------------------- specifications

vars == <<stategenVars, encVars>>

\* The stategen service; the encoder is not used.
Init ==
    /\ StategenInit
    /\ useSnappy = FALSE
    /\ encoded = NoEncode
    /\ decoded = NoDecode

Next ==
    \/ \E c \in Callers, root \in Roots : StateByRoot(c, root) /\ UNCHANGED <<encVars, seen>>
    \/ \E c \in Callers : StateByRoot_Tier(c) /\ UNCHANGED <<encVars, seen>>
    \/ \E c \in Callers, root \in Roots : stateSummary(c, root) /\ UNCHANGED <<encVars, seen>>
    \/ \E c \in Callers : stateSummary_Get(c) /\ UNCHANGED <<encVars, seen>>
    \/ \E c \in Callers : stateSummary_DB(c) /\ UNCHANGED <<encVars, seen>>
    \/ \E c \in Callers : recoverStateSummary_HasBlock(c) /\ UNCHANGED <<encVars, seen>>
    \/ \E c \in Callers : recoverStateSummary_Block(c) /\ UNCHANGED <<encVars, seen>>
    \/ \E c \in Callers : recoverStateSummary_Save(c) /\ UNCHANGED <<encVars, seen>>
    \/ \E c \in Callers, slot \in Slots : StateBySlot(c, slot) /\ UNCHANGED <<encVars, seen>>
    \/ \E c \in Callers, root \in Roots : StateSummaryExists(c, root) /\ UNCHANGED <<encVars, seen>>
    \/ \E c \in Callers : StateSummaryExists_Cache(c) /\ UNCHANGED <<encVars, seen>>
    \/ \E c \in Callers : Return(c) /\ UNCHANGED <<encVars, seen>>
    \/ \E root \in BlockRoots : CachePut(root) /\ UNCHANGED <<encVars, seen>>
    \/ CacheClear /\ UNCHANGED <<encVars, seen>>
    \/ \E newSlot \in Slots : AdvanceSplit(newSlot) /\ UNCHANGED <<encVars, seen>>

Spec == Init /\ [][Next]_vars

\* Summary resolution over a store whose reads and writes may fail: the
\* calls of StateByRoot and stateSummary, each store operation that returns
\* an error either succeeding or failing, while the cache is filled and
\* cleared.  The split point stays where it is.
NextFaults ==
    \/ \E c \in Callers, root \in Roots : StateByRoot(c, root) /\ UNCHANGED <<encVars, seen>>
    \/ \E c \in Callers : StateByRoot_Tier(c) /\ UNCHANGED <<encVars, seen>>
    \/ \E c \in Callers, root \in Roots : stateSummary(c, root) /\ UNCHANGED <<encVars, seen>>
    \/ \E c \in Callers : stateSummary_Get(c) /\ UNCHANGED <<encVars, seen>>
    \/ \E c \in Callers : stateSummary_DB(c) /\ UNCHANGED <<encVars, seen>>
    \/ \E c \in Callers : stateSummary_DBFails(c) /\ UNCHANGED <<encVars, seen>>
    \/ \E c \in Callers : recoverStateSummary_HasBlock(c) /\ UNCHANGED <<encVars, seen>>
    \/ \E c \in Callers : recoverStateSummary_Block(c) /\ UNCHANGED <<encVars, seen>>
    \/ \E c \in Callers : recoverStateSummary_BlockFails(c) /\ UNCHANGED <<encVars, seen>>
    \/ \E c \in Callers : recoverStateSummary_Save(c) /\ UNCHANGED <<encVars, seen>>
    \/ \E c \in Callers : recoverStateSummary_SaveFails(c) /\ UNCHANGED <<encVars, seen>>
    \/ \E c \in Callers : Return(c) /\ UNCHANGED <<encVars, seen>>
    \/ \E root \in BlockRoots : CachePut(root) /\ UNCHANGED <<encVars, seen>>
    \/ CacheClear /\ UNCHANGED <<encVars, seen>>

SpecFaults == Init /\ [][NextFaults]_vars

\* What the split slot was during each call: the value at the call's start
\* and every value an advance gave it while the call was under way.
Watch(c) == seen' = [seen EXCEPT ![c] = {splitSlot}]

Unwatch(c) == seen' = [seen EXCEPT ![c] = {}]

WatchAdvance(newSlot) ==
    seen' = [c \in Callers |->
                IF calls[c].pc \in {"idle", "done"} THEN seen[c]
                ELSE seen[c] \cup {newSlot}]

\* Lookups that race advances of the split point; the summary cache stays
\* empty.
NextSplit ==
    \/ \E c \in Callers, root \in Roots :
          StateByRoot(c, root) /\ Watch(c) /\ UNCHANGED encVars
    \/ \E c \in Callers : stateSummary_DB(c) /\ UNCHANGED <<encVars, seen>>
    \/ \E c \in Callers : recoverStateSummary_HasBlock(c) /\ UNCHANGED <<encVars, seen>>
    \/ \E c \in Callers : recoverStateSummary_Block(c) /\ UNCHANGED <<encVars, seen>>
    \/ \E c \in Callers : recoverStateSummary_Save(c) /\ UNCHANGED <<encVars, seen>>
    \/ \E c \in Callers : StateByRoot_Tier(c) /\ UNCHANGED <<encVars, seen>>
    \/ \E c \in Callers, slot \in Slots :
          StateBySlot(c, slot) /\ Watch(c) /\ UNCHANGED encVars
    \/ \E c \in Callers : Return(c) /\ Unwatch(c) /\ UNCHANGED encVars
    \/ \E newSlot \in Slots :
          AdvanceSplit(newSlot) /\ WatchAdvance(newSlot) /\ UNCHANGED encVars

SpecSplit == Init /\ [][NextSplit]_vars

\* The encoder; the stategen service is at rest, with an empty store.
InitEnc ==
    /\ EncInit
    /\ summaryCache = [r \in Roots |-> NilSummary]
    /\ dbSummaries = [r \in Roots |-> NilSummary]
    /\ dbBlocks = [r \in Roots |-> NilBlock]
    /\ splitSlot = 0
    /\ calls = [c \in Callers |-> Idle]
    /\ seen = [c \in Callers |-> {}]

\* The decoder is handed a reader over one of Frames or over what the last
\* Encode... call wrote.
NextEnc ==
    \/ \E msg \in Msgs : Encode(msg)
    \/ \E msg \in Msgs : EncodeGossip(msg)
    \/ \E msg \in Msgs : EncodeWithLength(msg)
    \/ \E msg \in Msgs, maxSize \in MaxSizes : EncodeWithMaxLength(msg, maxSize)
    \/ \E r \in Frames \cup {encoded.w}, maxSize \in MaxSizes :
          DecodeWithMaxLength(r, maxSize)
    \/ \E r \in Frames \cup {encoded.w} : DecodeWithLength(r)

SpecEnc == InitEnc /\ [][NextEnc]_vars

\* ------------------------------------------------------- stategen: claims

\* Caller c has completed a call of op and still holds its result.
Done(c, op) == calls[c].pc = "done" /\ calls[c].op = op

Loaders ==
    {"loadColdStateByRoot", "loadHotStateByRoot",
     "loadColdStateBySlot", "loadHotStateBySlot"}

\* The call of c got nothing from the summary cache: Has answered false.
CacheMiss(c) == "cache.Has" \in calls[c].log /\ "cache.Get" \notin calls[c].log

C2_GenesisShortcut ==
    \A c \in Callers :
        (Done(c, "StateByRoot") /\ calls[c].root = ZeroHash) =>
            /\ calls[c].state = DBState(ZeroHash)
            /\ calls[c].err = ""
            /\ calls[c].log = {"db.State"}
            /\ calls[c].split = 0 - 1

\* C2 witness: the shortcut taken while the cache holds a summary, the
\* store holds a summary and a block, and the split point has advanced.
C2_Witness ==
    \E c \in Callers :
        /\ Done(c, "StateByRoot")
        /\ calls[c].root = ZeroHash
        /\ calls[c].state = DBState(ZeroHash)
        /\ splitSlot > 0
        /\ \E r \in BlockRoots : CacheHas(r) /\ HasStateSummary(r) /\ HasBlock(r)

\* Call c of stateSummary began after another caller's stateSummary of the
\* same root, which found no summary in the cache or the store, derived it
\* from the block and persisted it.
Subsequent(c, d) ==
    /\ d # c
    /\ Done(c, "stateSummary")
    /\ Done(d, "stateSummary")
    /\ calls[d].root = calls[c].root
    /\ ~calls[d].preStore
    /\ CacheMiss(d)
    /\ "db.SaveStateSummary" \in calls[d].log
    /\ calls[c].preStore

\* C3 as stated: the subsequent call returns the same value from the
\* summary cache (a cache read, no store read) and does not derive again.
C3_SecondFromCache ==
    \A c, d \in Callers :
        Subsequent(c, d) =>
            /\ calls[c].summary = calls[d].summary
            /\ "cache.Get" \in calls[c].log
            /\ "db.StateSummary" \notin calls[c].log
            /\ "db.Block" \notin calls[c].log
            /\ "db.SaveStateSummary" \notin calls[c].log

\* C3, amended: with a stored block of root R at slot s, every completed
\* stateSummary(R) returns {slot: s, root: R} without error; the call that
\* finds no summary derives and persists it; a subsequent call that finds
\* R still absent from the summary cache returns the same value from the
\* persistent store, with no block read and no second SaveStateSummary.
C3_SecondFromStore ==
    /\ \A c \in Callers :
          (Done(c, "stateSummary") /\ HasBlock(calls[c].root)) =>
              /\ calls[c].err = ""
              /\ calls[c].summary =
                    StateSummary(dbBlocks[calls[c].root].slot, calls[c].root)
              /\ "db.SaveStateSummary" \in calls[c].log =>
                    dbSummaries[calls[c].root] = calls[c].summary
    /\ \A c, d \in Callers :
          (Subsequent(c, d) /\ CacheMiss(c)) =>
              /\ calls[c].summary = calls[d].summary
              /\ calls[c].log = {"cache.Has", "db.StateSummary"}

\* C3 witness: a deriving call and a subsequent call that missed the cache.
C3_Witness ==
    \E c, d \in Callers :
        /\ Subsequent(c, d)
        /\ CacheMiss(c)
        /\ calls[c].summary = StateSummary(SlotOf(calls[c].root), calls[c].root)

\* A step in which caller c completes a call of op.
Completes(c, op) ==
    /\ calls[c].pc # "done"
    /\ calls'[c].pc = "done"
    /\ calls'[c].op = op

\* A step of a call of op by caller c.
StepOf(c, op) == calls'[c] # calls[c] /\ calls'[c].op = op

C5_UnknownSummary ==
    \A c \in Callers :
        ( /\ calls[c].pc = "done"
          /\ calls[c].op \in {"stateSummary", "StateByRoot"}
          /\ calls[c].root # ZeroHash \/ calls[c].op = "stateSummary"
          /\ ~HasBlock(calls[c].root)
          /\ ~HasStateSummary(calls[c].root)
          /\ CacheMiss(c) ) =>
            /\ calls[c].err =
                  IF calls[c].op = "stateSummary"
                  THEN "errUnknownStateSummary"
                  ELSE "could not get state summary: errUnknownStateSummary"
            /\ calls[c].summary = NilSummary
            /\ calls[c].state = NilState
            /\ calls[c].log = {"cache.Has", "db.StateSummary", "db.HasBlock"}

\* C5 witness: StateByRoot has failed that way.
C5_Witness ==
    \E c \in Callers :
        /\ Done(c, "StateByRoot")
        /\ calls[c].root # ZeroHash
        /\ ~HasBlock(calls[c].root)
        /\ ~HasStateSummary(calls[c].root)
        /\ CacheMiss(c)
        /\ calls[c].err = "could not get state summary: errUnknownStateSummary"

\* A step in which caller c runs SaveStateSummary.
Saves(c) == calls[c].pc = "rc_save" /\ calls'[c].pc # "rc_save"

\* C6 as stated: the engine writes a summary for R only when the store
\* holds none for R (here for calls that missed the cache, so that no
\* eviction is involved).
C6_WritesOnlyWhenAbsent ==
    [][\A c \in Callers :
          (Saves(c) /\ CacheMiss(c)) => ~HasStateSummary(calls[c].root)
      ]_vars

\* C6, amended: a persisted summary is never changed and never removed;
\* the persisted summaries change only in the SaveStateSummary of a call
\* whose own lookup returned no summary, and what it writes is
\* {slot of R's stored block, R}: when a concurrent call has persisted R's
\* summary in the meantime, it writes that same pair again.
C6_SummaryImmutable ==
    [][/\ \A r \in Roots :
             HasStateSummary(r) => dbSummaries'[r] = dbSummaries[r]
       /\ \A r \in Roots :
             dbSummaries'[r] # dbSummaries[r] =>
                \E c \in Callers : Saves(c) /\ calls[c].root = r
       /\ \A c \in Callers :
             Saves(c) =>
                /\ HasBlock(calls[c].root)
                /\ "db.HasBlock" \in calls[c].log
                /\ dbSummaries'[calls[c].root] =
                      StateSummary(dbBlocks[calls[c].root].slot, calls[c].root)
      ]_vars

\* C6 witness: two calls that both missed the cache have each persisted the
\* summary of the same root, and the store holds it with the block's slot.
C6_Witness ==
    \E c, d \in Callers :
        /\ c # d
        /\ calls[c].root = calls[d].root
        /\ calls[c].pc = "done" /\ CacheMiss(c)
        /\ calls[d].pc = "done" /\ CacheMiss(d)
        /\ "db.SaveStateSummary" \in calls[c].log
        /\ "db.SaveStateSummary" \in calls[d].log
        /\ dbSummaries[calls[c].root] =
              StateSummary(dbBlocks[calls[c].root].slot, calls[c].root)

\* C7: a completed StateBySlot has run the cold loader when slot <
\* split.slot and the hot loader when slot >= split.slot, and besides that
\* loader its only access was the read of the split slot: no cache lookup,
\* no summary or block read, no write.
C7_TierBySlot ==
    \A c \in Callers :
        Done(c, "StateBySlot") =>
            /\ calls[c].split \in Slots
            /\ calls[c].err = ""
            /\ IF calls[c].slot < calls[c].split
               THEN /\ calls[c].log = {"splitInfo.slot", "loadColdStateBySlot"}
                    /\ calls[c].state = ColdStateBySlot(calls[c].slot)
               ELSE /\ calls[c].log = {"splitInfo.slot", "loadHotStateBySlot"}
                    /\ calls[c].state = HotStateBySlot(calls[c].slot)

\* C7 witness: the boundary case slot = split.slot > 0 has taken the hot
\* loader while the cache and the store hold summaries.
C7_Witness ==
    \E c \in Callers :
        /\ Done(c, "StateBySlot")
        /\ calls[c].split > 0
        /\ calls[c].slot = calls[c].split
        /\ calls[c].state = HotStateBySlot(calls[c].slot)
        /\ \E r \in BlockRoots : CacheHas(r) /\ HasStateSummary(r)

\* C10: a stateSummary call for a root whose summary was persisted when it
\* began returns that persisted summary without error, whatever evictions
\* of the summary cache happen during the call.
C10_EvictionSafe ==
    \A c \in Callers :
        (Done(c, "stateSummary") /\ calls[c].preStore) =>
            /\ calls[c].err = ""
            /\ calls[c].summary = dbSummaries[calls[c].root]

\* C11: stateSummary tries the cache, then the store, then the block, in
\* that order: a call that has asked for the block has read the store
\* before, unless the cache gave it a summary (and then no block is asked
\* for at all).
C11_StoreBeforeBlocks ==
    \A c \in Callers :
        (calls[c].op \in {"stateSummary", "StateByRoot"} /\ "db.HasBlock" \in calls[c].log)
            => "db.StateSummary" \in calls[c].log

\* ------------------------------------------------------------ store failures

\* The store operations that have failed in caller c's call.
Failures(c) ==
    calls[c].log \cap {"db.StateSummary fails", "db.Block fails",
                       "db.SaveStateSummary fails"}

\* C12: a store failure during summary resolution ends the call with that
\* error.  After a failed summary read no block is asked for and nothing
\* is saved; after a failed block read nothing is saved; after any of the
\* three failures stateSummary returns the store's error and no summary,
\* and StateByRoot returns the wrapped error, no state, and has run no
\* loader.
C12_StoreFailureReturned ==
    \A c \in Callers :
        Failures(c) # {} =>
            /\ calls[c].pc = "done"
            /\ Cardinality(Failures(c)) = 1
            /\ calls[c].summary = NilSummary
            /\ calls[c].state = NilState
            /\ calls[c].log \cap Loaders = {}
            /\ "splitInfo.slot" \notin calls[c].log
            /\ calls[c].err = IF calls[c].op = "StateByRoot"
                              THEN "could not get state summary: " \o errStore
                              ELSE errStore
            /\ "db.StateSummary fails" \in calls[c].log =>
                  calls[c].log = {"cache.Has", "db.StateSummary", "db.StateSummary fails"}
            /\ "db.Block fails" \in calls[c].log =>
                  "db.SaveStateSummary" \notin calls[c].log

\* C12 witness: a failed save has ended one StateByRoot call, leaving the
\* store without a summary, and a failed summary read has ended another.
C12_Witness ==
    /\ \E c \in Callers :
          /\ Done(c, "StateByRoot")
          /\ "db.SaveStateSummary fails" \in calls[c].log
          /\ dbSummaries[calls[c].root] = NilSummary
          /\ \E d \in Callers :
                /\ Done(d, "StateByRoot")
                /\ "db.StateSummary fails" \in calls[d].log

\* ------------------------------------------------------- repeated recovery

\* Caller c's finished stateSummary call went through recoverStateSummary
\* and read the block.
Recovered(c) == Done(c, "stateSummary") /\ "db.Block" \in calls[c].log

\* C13: recovery may be repeated and may run concurrently.  Every
\* stateSummary call that derived the summary of its root from the stored
\* block returns {slot: block.slot, root: R} without error, whatever other
\* calls did meanwhile, and the store then holds for R that one summary,
\* which is what a single call writes; the summaries of other roots are
\* as well-formed as before.
C13_RecoveryIdempotent ==
    /\ \A c \in Callers :
          Recovered(c) =>
             /\ calls[c].err = ""
             /\ calls[c].summary = DerivedSummary(dbBlocks[calls[c].root], calls[c].root)
             /\ dbSummaries[calls[c].root] = calls[c].summary
    /\ \A r \in Roots :
          dbSummaries[r] # NilSummary => dbSummaries[r] = StateSummary(SlotOf(r), r)

\* C13 witness: two calls for the same root, which had only a stored
\* block when each of them began, have both derived and saved the summary
\* and returned the same one.
C13_Witness ==
    \E c, d \in Callers :
        /\ c # d
        /\ Recovered(c) /\ Recovered(d)
        /\ calls[c].root = calls[d].root
        /\ ~calls[c].preStore /\ ~calls[d].preStore
        /\ CacheMiss(c) /\ CacheMiss(d)
        /\ "db.SaveStateSummary" \in calls[c].log \cap calls[d].log
        /\ calls[c].summary = calls[d].summary
        /\ dbSummaries[calls[c].root] = calls[c].summary

\* ------------------------------------------------- racing the split point

\* Caller c's finished call has made a tier decision.
Decided(c) ==
    /\ calls[c].pc = "done"
    /\ calls[c].op \in {"StateByRoot", "StateBySlot"}
    /\ calls[c].log \cap Loaders # {}

\* C14: a StateByRoot or StateBySlot call reads the split slot once, in
\* the step that decides the tier: before that step it holds no split
\* value, and the value its decision was made against is one the split
\* slot had at some moment of the call, the one at its start or one a
\* racing advance gave it.
C14_SplitReadOnce ==
    \A c \in Callers :
        /\ ~Decided(c) => (calls[c].split = 0 - 1 /\ "splitInfo.slot" \notin calls[c].log)
        /\ Decided(c) =>
              /\ "splitInfo.slot" \in calls[c].log
              /\ calls[c].split \in seen[c]
              /\ calls[c].op = "StateByRoot" =>
                    calls[c].state =
                       IF calls[c].summary.slot < calls[c].split
                       THEN ColdStateByRoot(calls[c].root)
                       ELSE HotStateByRoot(calls[c].root)
              /\ calls[c].op = "StateBySlot" =>
                    calls[c].state =
                       IF calls[c].slot < calls[c].split
                       THEN ColdStateBySlot(calls[c].slot)
                       ELSE HotStateBySlot(calls[c].slot)

\* C14 witness: the split slot advanced twice during a StateByRoot call,
\* which then decided against the last value and took the cold loader,
\* where the value at its start would have given the hot one.
C14_Witness ==
    \E c \in Callers :
        /\ Decided(c) /\ calls[c].op = "StateByRoot"
        /\ Cardinality(seen[c]) = 3
        /\ calls[c].split = splitSlot
        /\ calls[c].state.tier = "cold"
        /\ \E v \in seen[c] : ~(calls[c].summary.slot < v)

\* -------------------------------------------------------- encoder: claims

\* The last Encode... call was a length-prefixed one that wrote a frame for
\* a non-nil message.
WroteFrame ==
    /\ encoded.op \in {"EncodeWithLength", "EncodeWithMaxLength"}
    /\ encoded.msg # NilMsg
    /\ encoded.err = ""

\* What follows the varint in the bytes written.
WirePayload == SubSeq(encoded.w, readVarint(encoded.w).n + 1, Len(encoded.w))

\* C8: a Decode... call with maxSize > MaxChunkSize fails having taken
\* nothing from the reader; a frame whose varint declares more than maxSize
\* fails having taken the varint's bytes only and allocated no buffer;
\* DecodeWithLength runs with maxSize = MaxChunkSize; and no buffer is ever
\* made for a declared length over maxSize or over MaxChunkSize.
C8_SizeExceeded ==
    decoded.op # "none" =>
        LET v == readVarint(decoded.r) IN
        /\ decoded.op = "DecodeWithLength" => decoded.maxSize = MaxChunkSize
        /\ decoded.maxSize > MaxChunkSize =>
              /\ decoded.err # ""
              /\ decoded.taken = 0
              /\ decoded.alloc = 0 - 1
              /\ decoded.out = <<>>
        /\ (decoded.maxSize <= MaxChunkSize /\ v.err = "" /\ v.val > decoded.maxSize) =>
              /\ decoded.err # ""
              /\ decoded.taken = v.n
              /\ decoded.alloc = 0 - 1
              /\ decoded.out = <<>>
        /\ decoded.alloc # 0 - 1 =>
              /\ v.val <= decoded.maxSize
              /\ decoded.maxSize <= MaxChunkSize
              /\ decoded.alloc <= MaxLength(useSnappy, MaxChunkSize)

\* C8 witness: DecodeWithLength has refused a frame that declares
\* MaxChunkSize + 1 bytes and carries payload bytes, none of them taken.
C8_Witness ==
    /\ decoded.op = "DecodeWithLength"
    /\ readVarint(decoded.r).val = MaxChunkSize + 1
    /\ Len(decoded.r) > readVarint(decoded.r).n
    /\ decoded.taken = readVarint(decoded.r).n
    /\ decoded.err # ""
    /\ decoded.alloc = 0 - 1

\* C9 as stated: the varint's value is the byte-length of the payload that
\* follows it on the wire, with and without compression.
C9_PrefixIsWireLength ==
    WroteFrame =>
        /\ readVarint(encoded.w).err = ""
        /\ readVarint(encoded.w).val = Len(WirePayload)

\* C9, amended: the bytes written are a varint followed by the payload, and
\* the varint's value is the byte-length of the serialized message, before
\* compression.  Without compression the payload is the serialized message,
\* so the value is the payload's length; with UseSnappyCompression the
\* payload is the snappy stream of the serialized message (nothing at all
\* for an empty one), which reads back as the serialized message; the
\* value is the length of that message, not of the stream.
C9_PrefixIsSerializedLength ==
    WroteFrame =>
        LET b == doEncode(encoded.msg).b
            v == readVarint(encoded.w)
        IN  /\ v.err = ""
            /\ v.val = Len(b)
            /\ encoded.n = Len(b)
            /\ ~useSnappy => WirePayload = b
            /\ (useSnappy /\ b = <<>>) => WirePayload = <<>>
            /\ (useSnappy /\ b # <<>>) =>
                  SnappyRead(WirePayload, MaxLength(TRUE, v.val)) =
                        [data |-> b, err |-> ""]

\* C9 witness: EncodeWithMaxLength has written a compressed frame of a
\* non-empty message.
C9_Witness ==
    /\ WroteFrame
    /\ encoded.op = "EncodeWithMaxLength"
    /\ useSnappy
    /\ doEncode(encoded.msg).b # <<>>
    /\ Len(encoded.w) > 1

\* C15: EncodeWithMaxLength refuses every message whose serialized length
\* is over maxSize: it returns an error and the count 0 and has written
\* nothing, neither the varint nor a byte of the payload; a message within
\* maxSize is written.  Every Encode variant takes a nil message without
\* error, writes nothing and returns 0.
C15_OversizeAndNil ==
    /\ (encoded.op = "EncodeWithMaxLength" /\ encoded.msg # NilMsg
          /\ doEncode(encoded.msg).err = "") =>
          IF Len(doEncode(encoded.msg).b) > encoded.maxSize
          THEN encoded.err # "" /\ encoded.w = <<>> /\ encoded.n = 0
          ELSE encoded.err = "" /\ encoded.w # <<>>
    /\ (encoded.op # "none" /\ encoded.msg = NilMsg) =>
          encoded.err = "" /\ encoded.w = <<>> /\ encoded.n = 0

\* C15 witness: EncodeWithMaxLength has refused a message one byte longer
\* than a maxSize above 0, leaving the writer empty.
C15_Witness ==
    /\ encoded.op = "EncodeWithMaxLength"
    /\ encoded.maxSize > 0
    /\ doEncode(encoded.msg).err = ""
    /\ Len(doEncode(encoded.msg).b) = encoded.maxSize + 1
    /\ encoded.err # ""
    /\ encoded.w = <<>>
    /\ encoded.n = 0

\* DecodeWithMaxLength has read what EncodeWithMaxLength wrote for a
\* non-nil message, both with the same maxSize, one MaxChunkSize allows.
ReadBack ==
    /\ encoded.op = "EncodeWithMaxLength"
    /\ encoded.msg # NilMsg
    /\ encoded.err = ""
    /\ decoded.op = "DecodeWithMaxLength"
    /\ decoded.r = encoded.w
    /\ decoded.maxSize = encoded.maxSize
    /\ encoded.maxSize <= MaxChunkSize

\* C16: the size limits of the two sides agree.  A frame that
\* EncodeWithMaxLength(maxSize) wrote is not refused for its size by
\* DecodeWithMaxLength with the same maxSize, with and without compression:
\* the length it declares is the serialized length, a buffer is made for
\* it, at least that long, and the bytes handed to doDecode are the whole
\* serialized message.
C16_LimitsAgree ==
    ReadBack =>
        LET b == doEncode(encoded.msg).b IN
        /\ decoded.msgLen = Len(b)
        /\ ~(decoded.msgLen > decoded.maxSize)
        /\ decoded.alloc = MaxLength(useSnappy, Len(b))
        /\ decoded.alloc >= Len(b)
        /\ decoded.out = b
        /\ b # <<>> => decoded.err = ""

\* C16 witness: a compressed frame of a message of exactly maxSize bytes,
\* more than none, was written and read back whole.
C16_Witness ==
    /\ ReadBack
    /\ useSnappy
    /\ encoded.maxSize > 0
    /\ Len(doEncode(encoded.msg).b) = encoded.maxSize
    /\ decoded.err = ""
    /\ decoded.out = doEncode(encoded.msg).b
    /\ decoded.alloc > decoded.msgLen

====
